---- MODULE Spec2Model ----
(***************************************************************************)
(* Model of the question-paper pipeline of Anna-University-QnA:            *)
(*   - generate_random_topics        (src/src/random_logic.py)             *)
(*   - classify_topics_to_question_types (src/src/classify_topic.py)       *)
(*   - generate_questions_from_topics    (src/src/create_questions.py)     *)
(*                                                                         *)
(* A composite key f"Unit {n} - {topic} ({level})" is modelled by the      *)
(* triple <<n, topic, level>>: the format is injective on such triples     *)
(* (the decimal unit number ends at the first blank, the level is the last *)
(* parenthesised word and the level names contain no parenthesis), so two  *)
(* keys are the same string exactly when the triples are equal.            *)
(***************************************************************************)
EXTENDS Integers, Sequences, FiniteSets, TLC

(***************************************************************************)
(* Bounds of the explored input space.                                     *)
(***************************************************************************)
MaxTopics == 2       \* topic titles in one topic tree
MaxCount == 2        \* requested number of questions
MaxParts == 2        \* comma-separated parts of an arbitrary question_counts
MaxRounds == 7       \* cap on the number of fallback rounds that are explored
ClassifierParts == 3 \* parts of the question_counts the app builds
MaxAnswer == 2       \* entries in the classifier's answer
MaxBatch == 3        \* entries in the generator's input
MaxCalls == 2        \* successive calls of generate_random_topics on one tree

\* topic titles; a key holds the unit and the level, so titles matter only
\* within one level list of one unit entry, and they are interchangeable: the
\* j-th title of such a list is one of the first j titles
TitleList == <<"a", "b">>

\* unit numbers of the explored trees; syllabus_json['units'] lists up to two
\* unit entries, in any order and with or without a repeated number
TreeUnits == {1, 2}

(***************************************************************************)
(* Program constants.                                                      *)
(***************************************************************************)
MinUnit == 1
MaxUnitNumber == 5

get_blooms_hierarchy ==
  <<"Remembering", "Understanding", "Applying", "Analyzing", "Evaluating", "Creating">>

Levels == {get_blooms_hierarchy[i] : i \in 1..Len(get_blooms_hierarchy)}

ValidDifficulties == {"easy", "medium", "hard"}

blooms_map ==
  [d \in ValidDifficulties |->
     CASE d = "easy" -> <<"Remembering", "Understanding">>
       [] d = "medium" -> <<"Applying", "Analyzing">>
       [] d = "hard" -> <<"Evaluating", "Creating">>]

(***************************************************************************)
(* Generic helpers.                                                        *)
(***************************************************************************)
Range(s) == {s[i] : i \in 1..Len(s)}

Min(S) == CHOOSE x \in S : \A y \in S : x <= y

Max(S) == CHOOSE x \in S : \A y \in S : y <= x

RECURSIVE SetOrders(_)
\* every list that list(set(...)) can produce: the iteration order of a set
\* of strings depends on the per-process hash seed
SetOrders(S) ==
  IF S = {} THEN {<<>>}
  ELSE UNION {{<<x>> \o o : o \in SetOrders(S \ {x})} : x \in S}

\* every outcome of random.shuffle(s)
Shuffles(s) ==
  {[i \in 1..Len(s) |-> s[o[i]]] : o \in SetOrders(1..Len(s))}

RECURSIVE SeqsUpTo(_, _)
SeqsUpTo(S, n) ==
  IF n = 0 THEN {<<>>}
  ELSE LET shorter == SeqsUpTo(S, n - 1)
       IN shorter \cup {Append(s, x) : s \in {t \in shorter : Len(t) = n - 1}, x \in S}

(***************************************************************************)
(* question_counts: a comma-separated string.  A part is either the text   *)
(* of an integer or text int() rejects.                                    *)
(***************************************************************************)
Tok(n) == [kind |-> "int", val |-> n]
BadTok == [kind |-> "text", val |-> 0]

RECURSIVE SumParts(_)
SumParts(parts) ==
  IF parts = <<>> THEN 0 ELSE parts[1].val + SumParts(Tail(parts))

\* lines 21-27: int(x) for every part; a ValueError for any part that is not
\* an integer
ParseFails(qc) == \E i \in 1..Len(qc) : qc[i].kind # "int"

\* the validation without the check of the unit numbers (line 34)
InvalidRequest_no_unit_check(qc, us, ds) ==
  \/ ParseFails(qc)
  \/ SumParts(qc) <= 0
  \/ ds = {} \/ ~(\A d \in ds : d \in ValidDifficulties)

\* lines 29-35
InvalidRequest(qc, us, ds) ==
  \/ ParseFails(qc)
  \/ SumParts(qc) <= 0
  \/ ds = {} \/ ~(\A d \in ds : d \in ValidDifficulties)
  \/ us = {} \/ ~(\A u \in us : MinUnit <= u /\ u <= MaxUnitNumber)

(***************************************************************************)
(* Bloom's levels.                                                         *)
(***************************************************************************)
\* full_hierarchy.index(b), 0-based
Index(b) == (CHOOSE i \in 1..Len(get_blooms_hierarchy) : get_blooms_hierarchy[i] = b) - 1

\* lines 41-52, before list(set(...)) fixes an order
map_difficulty_to_blooms(ds) == UNION {Range(blooms_map[d]) : d \in ds}

\* a slice that stops one level early: full_hierarchy[:min_index - 1]
fallback_blooms_short(current_blooms) ==
  LET current_indices == {Index(b) : b \in current_blooms \cap Levels}
      min_index == IF current_indices # {} THEN Min(current_indices) ELSE 0
  IN SubSeq(get_blooms_hierarchy, 1, min_index - 1)

\* a slice that keeps the lowest active level: full_hierarchy[:min_index + 1]
fallback_blooms_inclusive(current_blooms) ==
  LET current_indices == {Index(b) : b \in current_blooms \cap Levels}
      min_index == IF current_indices # {} THEN Min(current_indices) ELSE 0
  IN SubSeq(get_blooms_hierarchy, 1, min_index + 1)

\* a cascade toward the harder levels: full_hierarchy[max_index + 1:]
fallback_blooms_upward(current_blooms) ==
  LET current_indices == {Index(b) : b \in current_blooms \cap Levels}
      max_index == IF current_indices # {} THEN Max(current_indices) ELSE 0
  IN SubSeq(get_blooms_hierarchy, max_index + 2, Len(get_blooms_hierarchy))

\* lines 54-58: full_hierarchy[:min_index]
fallback_blooms(current_blooms) ==
  LET current_indices == {Index(b) : b \in current_blooms \cap Levels}
      min_index == IF current_indices # {} THEN Min(current_indices) ELSE 0
  IN SubSeq(get_blooms_hierarchy, 1, min_index)

(***************************************************************************)
(* Topic trees.  syllabus_json['units'] is a list of unit entries, each    *)
(* with a unit_number and a mapping level -> list of titles.               *)
(***************************************************************************)
EmptyTopics == [l \in Levels |-> <<>>]

RECURSIVE AddTopics(_, _)
AddTopics(tree, flat) ==
  IF flat = <<>> THEN tree
  ELSE LET t == flat[Len(flat)]
           rest == AddTopics(tree, SubSeq(flat, 1, Len(flat) - 1))
       IN [rest EXCEPT ![t[1]].topics[t[2]] = Append(@, t[3])]

Titles == {TitleList[i] : i \in 1..Len(TitleList)}

\* the topics of a tree, listed as <<entry, level, title>>
FlatTopics(entries, maxT) ==
  {flat \in SeqsUpTo((1..entries) \X Levels \X Titles, maxT) :
     \A j \in 1..Len(flat) :
       LET earlier == Cardinality({i \in 1..(j - 1) :
                                    flat[i][1] = flat[j][1] /\ flat[i][2] = flat[j][2]})
       IN \E k \in 1..(earlier + 1) : k <= Len(TitleList) /\ flat[j][3] = TitleList[k]}

\* the trees whose unit entries carry the numbers nums, with up to maxT topics
TreesOver(nums, maxT) ==
  {AddTopics([i \in 1..Len(nums) |-> [unit_number |-> nums[i], topics |-> EmptyTopics]], flat) :
     flat \in FlatTopics(Len(nums), maxT)}

Trees == UNION {TreesOver(nums, MaxTopics) : nums \in SeqsUpTo(TreeUnits, Cardinality(TreeUnits))}

\* no unit entry, or one unit entry with no topic or one topic
SmallTrees == UNION {TreesOver(nums, 1) : nums \in SeqsUpTo(TreeUnits, 1)}

Key(n, topic, level) == <<n, topic, level>>

RECURSIVE KeysOfTitles(_, _, _)
KeysOfTitles(n, level, titles) ==
  IF titles = <<>> THEN <<>>
  ELSE <<Key(n, titles[1], level)>> \o KeysOfTitles(n, level, Tail(titles))

RECURSIVE CollectLevels(_, _)
\* lines 69-73 for one unit entry
CollectLevels(unit, blooms_levels) ==
  IF blooms_levels = <<>> THEN <<>>
  ELSE KeysOfTitles(unit.unit_number, blooms_levels[1], unit.topics[blooms_levels[1]])
       \o CollectLevels(unit, Tail(blooms_levels))

RECURSIVE CollectUnits(_, _, _)
\* lines 67-68
CollectUnits(entries, us, blooms_levels) ==
  IF entries = <<>> THEN <<>>
  ELSE (IF entries[1].unit_number \in us
        THEN CollectLevels(entries[1], blooms_levels) ELSE <<>>)
       \o CollectUnits(Tail(entries), us, blooms_levels)

\* the collection without the unit filter of line 68
collect_topics_any_unit(tree, us, blooms_levels, used) ==
  SelectSeq(CollectUnits(tree, {tree[e].unit_number : e \in 1..Len(tree)}, blooms_levels),
            LAMBDA key : key \notin used)

\* lines 65-74
collect_topics(tree, us, blooms_levels, used) ==
  SelectSeq(CollectUnits(tree, us, blooms_levels), LAMBDA key : key \notin used)

\* a slice that is one element short: topics[:n - 1]
Take_one_short(s, n) == SubSeq(s, 1, IF n - 1 < Len(s) THEN n - 1 ELSE Len(s))

\* topics[:n]
Take(s, n) == SubSeq(s, 1, IF n < Len(s) THEN n ELSE Len(s))

RECURSIVE AppendUnused(_, _, _)
\* lines 87-92; the result is the new selected_topics (used_topics is its range
\* united with the old used_topics)
AppendUnused(ts, selected, n) ==
  IF ts = <<>> \/ Len(selected) >= n THEN selected
  ELSE IF ts[1] \notin Range(selected)
       THEN AppendUnused(Tail(ts), Append(selected, ts[1]), n)
       ELSE AppendUnused(Tail(ts), selected, n)

\* the numbering started at 0: enumerate(selected_topics[:num_questions])
FormatOutput_from_zero(selected, n) ==
  [i \in 1..Len(Take(selected, n)) |-> <<i - 1, Take(selected, n)[i]>>]

\* lines 99-101: enumerate(selected_topics[:num_questions], 1)
FormatOutput(selected, n) ==
  [i \in 1..Len(Take(selected, n)) |-> <<i, Take(selected, n)[i]>>]

(***************************************************************************)
(* Entries of the classifier's JSON array.  An entry is a JSON object with *)
(* or without the keys 'topic' and 'question_type' ("None" stands for an   *)
(* absent key), or a JSON value that is not an object.                     *)
(***************************************************************************)
QuestionTypes == {"MCQ", "Short Answer", "Long Answer"}

Entry(t, qt) == [shape |-> "dict", topic |-> t, question_type |-> qt]
NonDictEntry == [shape |-> "other", topic |-> "None", question_type |-> "None"]

\* the local variable topic: not yet assigned, or holding entry.get("topic")
Unbound == [bound |-> FALSE, val |-> "None"]
Bound(t) == [bound |-> TRUE, val |-> t]

GeneratedQuestion(t, qt) == [kind |-> "question", topic |-> t, question_type |-> qt]
ErrorPlaceholder(t) == [kind |-> "error", topic |-> t, question_type |-> "None"]

(***************************************************************************)
(* State of generate_random_topics.                                        *)
(***************************************************************************)
VARIABLES
  syllabus_json,     \* the list syllabus_json['units']
  question_counts,   \* parts of the comma-separated string
  units,             \* requested unit numbers
  difficulties,      \* requested difficulty labels
  pc,                \* position in generate_random_topics
  num_questions,
  primary_blooms,    \* the active level set
  fallback_levels,   \* last value of fallback_levels (a list)
  used_topics,
  selected_topics,
  topics_found,      \* last result of collect_topics, before the shuffle
  rounds,            \* completed iterations of the fallback loop
  status,            \* "none", "InvalidInput", "ExhaustedPool", "returned"
  output,            \* the numbered lines of the returned string
  calls              \* calls of generate_random_topics made so far

inputs == <<syllabus_json, question_counts, units, difficulties>>

selector_vars == <<inputs, pc, num_questions, primary_blooms, fallback_levels, used_topics,
                   selected_topics, topics_found, rounds, status, output, calls>>

(***************************************************************************)
(* State of classify_topics_to_question_types.                             *)
(***************************************************************************)
VARIABLES
  cl_counts,         \* parts of the question_counts string passed to the classifier
  llm_response,      \* what the classification model answers
  cl_pc,             \* "call" before the call, "done" after it
  cl_status,         \* "none", "InvalidInput", "ClassifyError", "returned"
  cl_result          \* the JSON value that is returned

classifier_vars == <<cl_counts, llm_response, cl_pc, cl_status, cl_result>>

(***************************************************************************)
(* State of generate_questions_from_topics.                                *)
(***************************************************************************)
VARIABLES
  gen_topics,        \* json.loads(topics_json)
  gen_outcomes,      \* per entry, what retrieval and generation do
  gen_pc,            \* "start", "loop", "done"
  gen_index,         \* number of entries the loop has consumed
  topic,             \* the local variable topic of the loop body
  questions,
  gen_status         \* "none", "InvalidInput", "aborted", "returned"

generator_vars == <<gen_topics, gen_outcomes, gen_pc, gen_index, topic, questions, gen_status>>

(***************************************************************************)
(* State of the "Generate Questions" handler of app.py.                    *)
(***************************************************************************)
VARIABLES
  app_pc,            \* "idle", "step1", "step2", "select", "classify", "generate", "render", "done"
  started,           \* the stages whose call was made, in call order
  extract_status,    \* "none", "failed", "returned"
  index,             \* the rendering index of lines 94-111
  app_error          \* TRUE once st.error was called (line 114)

app_vars == <<app_pc, started, extract_status, index, app_error>>

vars == <<selector_vars, classifier_vars, generator_vars, app_vars>>

MainRequests ==
  {<<qc, us, ds>> : qc \in {<<Tok(n)>> : n \in 1..MaxCount},
                    us \in (SUBSET TreeUnits) \ {{}},
                    ds \in {d \in SUBSET ValidDifficulties : d # {} /\ d # ValidDifficulties}}

EdgeRequests ==
  {<<qc, us, ds>> : qc \in SeqsUpTo({Tok(0), Tok(1), BadTok}, MaxParts) \ {<<>>},
                    us \in SUBSET {0, 1, MaxUnitNumber + 1},
                    ds \in SUBSET (ValidDifficulties \cup {"extreme"})}

SelectorLocalsInit ==
  /\ num_questions = 0
  /\ primary_blooms = {}
  /\ fallback_levels = <<>>
  /\ used_topics = {}
  /\ selected_topics = <<>>
  /\ topics_found = <<>>
  /\ rounds = 0
  /\ status = "none"
  /\ output = <<>>

\* every tree of the bounds with every well-formed request of one or two
\* difficulties, and every request, malformed ones included, with the small trees
SelectorInit ==
  /\ \/ /\ syllabus_json \in Trees
        /\ \E r \in MainRequests :
             question_counts = r[1] /\ units = r[2] /\ difficulties = r[3]
     \/ /\ syllabus_json \in SmallTrees
        /\ \E r \in EdgeRequests :
             question_counts = r[1] /\ units = r[2] /\ difficulties = r[3]
  /\ pc = "validate"
  /\ calls = 1
  /\ SelectorLocalsInit

ClassifierIdle ==
  /\ cl_counts = <<>>
  /\ llm_response = [form |-> "failure", value |-> <<>>]
  /\ cl_pc = "idle"
  /\ cl_status = "none"
  /\ cl_result = <<>>

GeneratorIdle ==
  /\ gen_topics = <<>>
  /\ gen_outcomes = <<>>
  /\ gen_pc = "idle"
  /\ gen_index = 0
  /\ topic = Unbound
  /\ questions = <<>>
  /\ gen_status = "none"

SelectorIdle ==
  /\ syllabus_json = <<>>
  /\ question_counts = <<>>
  /\ units = {}
  /\ difficulties = {}
  /\ SelectorLocalsInit
  /\ pc = "idle"
  /\ calls = 0

\* the handler is not running
AppIdle ==
  /\ app_pc = "idle"
  /\ started = <<>>
  /\ extract_status = "none"
  /\ index = 0
  /\ app_error = FALSE

Init == SelectorInit /\ ClassifierIdle /\ GeneratorIdle /\ AppIdle

(***************************************************************************)
(* generate_random_topics.                                                 *)
(***************************************************************************)
\* lines 20-35
Validate ==
  /\ pc = "validate"
  /\ IF InvalidRequest(question_counts, units, difficulties)
     THEN /\ pc' = "done"
          /\ status' = "InvalidInput"
          /\ UNCHANGED num_questions
     ELSE /\ pc' = "select"
          /\ num_questions' = SumParts(question_counts)
          /\ UNCHANGED status
  /\ UNCHANGED <<calls, app_vars, classifier_vars, generator_vars, inputs, primary_blooms, fallback_levels, used_topics, selected_topics,
                 topics_found, rounds, output>>

\* lines 61-79
InitialRound ==
  /\ pc = "select"
  /\ primary_blooms' = map_difficulty_to_blooms(difficulties)
  /\ topics_found' \in {collect_topics(syllabus_json, units, order, used_topics) :
                          order \in SetOrders(map_difficulty_to_blooms(difficulties))}
  /\ \E topics \in Shuffles(topics_found') :
       selected_topics' = selected_topics \o Take(topics, num_questions)
  /\ used_topics' = used_topics \cup Range(selected_topics')
  /\ pc' = "loop"
  /\ UNCHANGED <<calls, app_vars, classifier_vars, generator_vars, inputs, num_questions, fallback_levels, rounds, status, output>>

\* lines 81-93, one iteration that does not break
FallbackRound ==
  /\ pc = "loop"
  /\ rounds < MaxRounds
  /\ Len(selected_topics) < num_questions
  /\ fallback_blooms(primary_blooms) # <<>>
  /\ fallback_levels' = fallback_blooms(primary_blooms)
  /\ topics_found' = collect_topics(syllabus_json, units, fallback_levels', used_topics)
  /\ \E topics \in Shuffles(topics_found') :
       selected_topics' = AppendUnused(topics, selected_topics, num_questions)
  /\ used_topics' = used_topics \cup Range(selected_topics')
  /\ primary_blooms' = Range(fallback_levels')
  /\ rounds' = rounds + 1
  /\ UNCHANGED <<calls, app_vars, classifier_vars, generator_vars, inputs, pc, num_questions, status, output>>

\* line 81 false, or lines 82-84 break
LoopExit ==
  /\ pc = "loop"
  /\ IF Len(selected_topics) < num_questions
     THEN /\ fallback_blooms(primary_blooms) = <<>>
          /\ fallback_levels' = <<>>
     ELSE UNCHANGED fallback_levels
  /\ pc' = "finish"
  /\ UNCHANGED <<calls, app_vars, classifier_vars, generator_vars, inputs, num_questions, primary_blooms, used_topics, selected_topics,
                 topics_found, rounds, status, output>>

\* lines 95-102
Finish ==
  /\ pc = "finish"
  /\ IF selected_topics = <<>>
     THEN status' = "ExhaustedPool" /\ UNCHANGED output
     ELSE status' = "returned" /\ output' = FormatOutput(selected_topics, num_questions)
  /\ pc' = "done"
  /\ UNCHANGED <<calls, app_vars, classifier_vars, generator_vars, inputs, num_questions, primary_blooms, fallback_levels, used_topics,
                 selected_topics, topics_found, rounds>>

Next == Validate \/ InitialRound \/ FallbackRound \/ LoopExit \/ Finish

Spec == Init /\ [][Next]_vars

(***************************************************************************)
(* Successive calls of generate_random_topics with the same arguments.     *)
(***************************************************************************)
\* a further call whose used_topics and selected_topics outlive the call
Invoke_keeps_used ==
  /\ pc = "done"
  /\ calls < MaxCalls
  /\ calls' = calls + 1
  /\ pc' = "validate"
  /\ num_questions' = 0
  /\ primary_blooms' = {}
  /\ fallback_levels' = <<>>
  /\ topics_found' = <<>>
  /\ rounds' = 0
  /\ status' = "none"
  /\ output' = <<>>
  /\ UNCHANGED <<used_topics, selected_topics, inputs, classifier_vars, generator_vars, app_vars>>

\* a further call: the parameters are bound to the same objects and the
\* locals of lines 61-63 are created anew
Invoke ==
  /\ pc = "done"
  /\ calls < MaxCalls
  /\ calls' = calls + 1
  /\ pc' = "validate"
  /\ num_questions' = 0
  /\ primary_blooms' = {}
  /\ fallback_levels' = <<>>
  /\ used_topics' = {}
  /\ selected_topics' = <<>>
  /\ topics_found' = <<>>
  /\ rounds' = 0
  /\ status' = "none"
  /\ output' = <<>>
  /\ UNCHANGED <<inputs, classifier_vars, generator_vars, app_vars>>

NextRepeat == Next \/ Invoke

\* the trees of at most one unit entry, with every request
InitRepeat == Init /\ Len(syllabus_json) <= 1

SpecRepeat == InitRepeat /\ [][NextRepeat]_vars

(***************************************************************************)
(* classify_topics_to_question_types.  The answer of the model is text:    *)
(* a JSON array ("json"), the same inside a ```json fence ("fenced"), the  *)
(* same with prose around it ("embedded"), text with no JSON in it         *)
(* ("garbage"), or no answer because the call raised ("failure").          *)
(***************************************************************************)
ResponseForms == {"json", "fenced", "embedded", "garbage", "failure"}

ClassifierEntries == {Entry("t1", qt) : qt \in QuestionTypes} \cup {NonDictEntry}

\* lines 102-116: the JSON value extracted from the answer, or no value
JsonExtracted(r) ==
  CASE r.form \in {"json", "fenced"} -> TRUE
    \* line 113: the pattern wants an array that opens and closes with an object
    [] r.form = "embedded" -> /\ r.value # <<>>
                              /\ r.value[1].shape = "dict"
                              /\ r.value[Len(r.value)].shape = "dict"
    [] OTHER -> FALSE

ClassifierInit ==
  /\ cl_counts \in {qc \in SeqsUpTo({Tok(0), Tok(1), BadTok}, ClassifierParts) :
                      Len(qc) = ClassifierParts}
  /\ llm_response \in [form : ResponseForms, value : SeqsUpTo(ClassifierEntries, MaxAnswer)]
  /\ cl_pc = "call"
  /\ cl_status = "none"
  /\ cl_result = <<>>

\* lines 22-121
Classify ==
  /\ cl_pc = "call"
  /\ cl_pc' = "done"
  /\ IF ParseFails(cl_counts)
     THEN cl_status' = "InvalidInput" /\ UNCHANGED cl_result
     ELSE IF JsonExtracted(llm_response)
          THEN cl_status' = "returned" /\ cl_result' = llm_response.value
          ELSE cl_status' = "ClassifyError" /\ UNCHANGED cl_result
  /\ UNCHANGED <<cl_counts, llm_response, selector_vars, generator_vars, app_vars>>

NextClassify == Classify

InitClassify == ClassifierInit /\ SelectorIdle /\ GeneratorIdle /\ AppIdle

SpecClassify == InitClassify /\ [][NextClassify]_vars

(***************************************************************************)
(* generate_questions_from_topics.                                         *)
(***************************************************************************)
GeneratorEntries ==
  {Entry(t, qt) : t \in {"t1", "t2", "None"}, qt \in {"MCQ", "None"}} \cup {NonDictEntry}

Outcomes == {"ok", "retrieval_error", "generation_error"}

GeneratorInit ==
  /\ \E batch \in SeqsUpTo(GeneratorEntries \X Outcomes, MaxBatch) :
       /\ gen_topics = [i \in 1..Len(batch) |-> batch[i][1]]
       /\ gen_outcomes = [i \in 1..Len(batch) |-> batch[i][2]]
  /\ gen_pc = "start"
  /\ gen_index = 0
  /\ topic = Unbound
  /\ questions = <<>>
  /\ gen_status = "none"

\* lines 26-32 and 97
GenStart ==
  /\ gen_pc = "start"
  /\ IF gen_topics = <<>>
     THEN gen_pc' = "done" /\ gen_status' = "InvalidInput"
     ELSE gen_pc' = "loop" /\ UNCHANGED gen_status
  /\ UNCHANGED <<gen_topics, gen_outcomes, gen_index, topic, questions,
                 selector_vars, classifier_vars, app_vars>>

\* lines 98-128, one iteration
GenStep ==
  /\ gen_pc = "loop"
  /\ gen_index < Len(gen_topics)
  /\ LET topic_entry == gen_topics[gen_index + 1]
         outcome == gen_outcomes[gen_index + 1]
     IN IF topic_entry.shape # "dict"
        THEN \* line 100 raises AttributeError; line 128 reads topic
             IF topic.bound
             THEN /\ questions' = Append(questions, ErrorPlaceholder(topic.val))
                  /\ gen_index' = gen_index + 1
                  /\ UNCHANGED <<topic, gen_pc, gen_status>>
             ELSE /\ gen_pc' = "done"
                  /\ gen_status' = "aborted"
                  /\ UNCHANGED <<topic, questions, gen_index>>
        ELSE /\ topic' = Bound(topic_entry.topic)
             /\ gen_index' = gen_index + 1
             /\ UNCHANGED <<gen_pc, gen_status>>
             /\ IF \/ topic_entry.topic = "None"
                   \/ topic_entry.question_type = "None"
                   \/ outcome # "ok"
                THEN questions' = Append(questions, ErrorPlaceholder(topic_entry.topic))
                ELSE questions' = Append(questions,
                                         GeneratedQuestion(topic_entry.topic,
                                                           topic_entry.question_type))
  /\ UNCHANGED <<gen_topics, gen_outcomes, selector_vars, classifier_vars, app_vars>>

\* line 130
GenReturn ==
  /\ gen_pc = "loop"
  /\ gen_index = Len(gen_topics)
  /\ gen_pc' = "done"
  /\ gen_status' = "returned"
  /\ UNCHANGED <<gen_topics, gen_outcomes, gen_index, topic, questions,
                 selector_vars, classifier_vars, app_vars>>

NextGenerate == GenStart \/ GenStep \/ GenReturn

InitGenerate == GeneratorInit /\ SelectorIdle /\ ClassifierIdle /\ AppIdle

SpecGenerate == InitGenerate /\ [][NextGenerate]_vars

(***************************************************************************)
(* The "Generate Questions" handler of app.py.  The handler calls the four *)
(* stages one after the other inside one try block; what the extraction    *)
(* service and the two language models answer is an input of the run.      *)
(***************************************************************************)
selector_locals == <<pc, num_questions, primary_blooms, fallback_levels, used_topics,
                     selected_topics, topics_found, rounds, status, output, calls>>

\* line 40: the three number inputs, each at least 0
AppCounts ==
  {qc \in SeqsUpTo({Tok(0), Tok(1)}, ClassifierParts) : Len(qc) = ClassifierParts}

\* the answers of the classification model that a run of the handler explores
AppResponses ==
  [form : {"json", "garbage", "failure"},
   value : SeqsUpTo({Entry("t1", "MCQ"), NonDictEntry}, MaxAnswer)]

\* lines 33-56: the widgets are read, the button was pressed
AppInit ==
  /\ question_counts \in AppCounts
  /\ units \in SUBSET {1}
  /\ difficulties \in {{}, {"easy"}, {"medium"}}
  /\ syllabus_json = <<>>
  /\ SelectorLocalsInit
  /\ pc = "idle"
  /\ calls = 0
  /\ app_pc = "step1"
  /\ started = <<>>
  /\ extract_status = "none"
  /\ index = 0
  /\ app_error = FALSE

\* lines 61-65, with lines 113-114 when the extraction raises
AppExtract ==
  /\ app_pc = "step1"
  /\ started' = Append(started, "extract")
  /\ \/ /\ extract_status' = "failed"
        /\ app_error' = TRUE
        /\ app_pc' = "done"
        /\ UNCHANGED syllabus_json
     \/ /\ extract_status' = "returned"
        /\ syllabus_json' \in SmallTrees
        /\ app_pc' = "step2"
        /\ UNCHANGED app_error
  /\ UNCHANGED <<question_counts, units, difficulties, selector_locals,
                 classifier_vars, generator_vars, index>>

\* lines 67-74: the call of generate_random_topics
AppCallSelect ==
  /\ app_pc = "step2"
  /\ started' = Append(started, "select")
  /\ pc' = "validate"
  /\ calls' = calls + 1
  /\ app_pc' = "select"
  /\ UNCHANGED <<inputs, num_questions, primary_blooms, fallback_levels, used_topics,
                 selected_topics, topics_found, rounds, status, output,
                 classifier_vars, generator_vars, extract_status, index, app_error>>

\* the classifier is called whatever the selector did
AppCallClassify_after_failure ==
  /\ app_pc = "select"
  /\ pc = "done"
  /\ started' = Append(started, "classify")
  /\ cl_counts' = question_counts
  /\ llm_response' \in AppResponses
  /\ cl_pc' = "call"
  /\ app_pc' = "classify"
  /\ UNCHANGED <<app_error, cl_status, cl_result,
                 selector_vars, generator_vars, extract_status, index>>

\* lines 75-83 when generate_random_topics returned, lines 113-114 when it raised
AppCallClassify ==
  /\ app_pc = "select"
  /\ pc = "done"
  /\ IF status = "returned"
     THEN /\ started' = Append(started, "classify")
          /\ cl_counts' = question_counts
          /\ llm_response' \in AppResponses
          /\ cl_pc' = "call"
          /\ app_pc' = "classify"
          /\ UNCHANGED app_error
     ELSE /\ app_error' = TRUE
          /\ app_pc' = "done"
          /\ UNCHANGED <<started, cl_counts, llm_response, cl_pc>>
  /\ UNCHANGED <<cl_status, cl_result, selector_vars, generator_vars, extract_status, index>>

\* lines 84-89 when the classifier returned, lines 113-114 when it raised;
\* json.loads of the json.dumps of line 118 gives the classifier's value back
AppCallGenerate ==
  /\ app_pc = "classify"
  /\ cl_pc = "done"
  /\ IF cl_status = "returned"
     THEN /\ started' = Append(started, "generate")
          /\ gen_topics' = cl_result
          /\ gen_outcomes' \in [1..Len(cl_result) -> {"ok", "generation_error"}]
          /\ gen_pc' = "start"
          /\ app_pc' = "generate"
          /\ UNCHANGED app_error
     ELSE /\ app_error' = TRUE
          /\ app_pc' = "done"
          /\ UNCHANGED <<started, gen_topics, gen_outcomes, gen_pc>>
  /\ UNCHANGED <<gen_index, topic, questions, gen_status,
                 selector_vars, classifier_vars, extract_status, index>>

\* lines 91-94 when the generator returned, lines 113-114 when it raised
AppStartRender ==
  /\ app_pc = "generate"
  /\ gen_pc = "done"
  /\ IF gen_status = "returned"
     THEN app_pc' = "render" /\ index' = 0 /\ UNCHANGED app_error
     ELSE app_pc' = "done" /\ app_error' = TRUE /\ UNCHANGED index
  /\ UNCHANGED <<started, extract_status, selector_vars, classifier_vars, generator_vars>>

\* lines 95-111, one st.write: the three loops read questions[index] for
\* index = 0 .. part_a + part_b + part_c - 1; an index past the end of the
\* list raises IndexError, which line 113 catches
AppWrite ==
  /\ app_pc = "render"
  /\ index < SumParts(question_counts)
  /\ IF index < Len(questions)
     THEN index' = index + 1 /\ UNCHANGED <<app_pc, app_error>>
     ELSE app_error' = TRUE /\ app_pc' = "done" /\ UNCHANGED index
  /\ UNCHANGED <<started, extract_status, selector_vars, classifier_vars, generator_vars>>

\* the end of the try block after line 111
AppRenderDone ==
  /\ app_pc = "render"
  /\ index = SumParts(question_counts)
  /\ app_pc' = "done"
  /\ UNCHANGED <<started, extract_status, index, app_error,
                 selector_vars, classifier_vars, generator_vars>>

NextApp ==
  \/ AppExtract \/ AppCallSelect \/ Next
  \/ AppCallClassify \/ Classify
  \/ AppCallGenerate \/ NextGenerate
  \/ AppStartRender \/ AppWrite \/ AppRenderDone

InitApp == AppInit /\ ClassifierIdle /\ GeneratorIdle

SpecApp == InitApp /\ [][NextApp]_vars

(***************************************************************************)
(* Properties of generate_random_topics.                                   *)
(***************************************************************************)
Returned == pc = "done" /\ status = "returned"

Finished == pc = "done" /\ status # "InvalidInput"

\* the levels of the initial mapped set and of every fallback set of the
\* cascade: the mapped levels and the levels ranked below all of them
StrictlyBelow(active) == {b \in Levels : \A a \in active : Index(b) < Index(a)}

CascadeLevels == 
  map_difficulty_to_blooms(difficulties) \cup StrictlyBelow(map_difficulty_to_blooms(difficulties))

KeysAt(levels) ==
  UNION {{Key(syllabus_json[e].unit_number, syllabus_json[e].topics[l][i], l) :
            i \in 1..Len(syllabus_json[e].topics[l])} :
         <<e, l>> \in {e \in 1..Len(syllabus_json) : syllabus_json[e].unit_number \in units}
                      \X levels}

EligiblePool == KeysAt(CascadeLevels)

\* C1: the returned sequence contains no composite key more than once.
C1_NoDuplicateKey ==
  Returned => \A i, j \in 1..Len(output) : i # j => output[i][2] # output[j][2]

\* C2: when the eligible pool (initial and fallback levels, requested units)
\* holds at least count distinct keys, exactly count topics are returned.
C2_ExactCount ==
  (Finished /\ Cardinality(EligiblePool) >= num_questions)
    => (status = "returned" /\ Len(output) = num_questions)

C2_Witness ==
  /\ Returned /\ rounds = 1
  /\ Cardinality(EligiblePool) > num_questions
  /\ Len(output) = num_questions

\* C3: when the eligible pool holds fewer than count distinct keys, all of
\* them are returned and ExhaustedPool is signalled to the caller.
C3_ShortPoolSignalled ==
  (Finished /\ Cardinality(EligiblePool) < num_questions)
    => (status = "ExhaustedPool" /\ Range(selected_topics) = EligiblePool)

LowestIndex(levels) == Min({Index(b) : b \in levels})

\* C4: every fallback round strictly lowers the lowest taxonomy index of the
\* active level set, and the loop ends after at most k rounds, k being the
\* index of the lowest level of the initial mapped set.
C4_CascadeTerminates ==
  /\ [](pc \in {"loop", "finish"} \/ Finished =>
          /\ rounds <= LowestIndex(map_difficulty_to_blooms(difficulties))
          /\ (pc = "loop" /\ ~ENABLED FallbackRound => ENABLED LoopExit))
  /\ [][rounds' = rounds + 1 =>
          LowestIndex(primary_blooms') < LowestIndex(primary_blooms)]_vars

C4_Witness ==
  /\ Finished /\ rounds = 1
  /\ syllabus_json = <<>>
  /\ difficulties = {"hard"}

\* C5: a request with a total count below 1, an empty or unknown difficulty
\* list or an empty or out-of-range unit list fails with InvalidInput before
\* anything is collected, shuffled or selected.
C5_InvalidInputFailsFirst ==
  (\/ (~ParseFails(question_counts) /\ SumParts(question_counts) < 1)
   \/ difficulties = {} \/ ~(difficulties \subseteq {"easy", "medium", "hard"})
   \/ units = {} \/ ~(units \subseteq 1..5))
    => /\ pc \in {"validate", "done"}
       /\ pc = "done" => status = "InvalidInput"
       /\ selected_topics = <<>> /\ used_topics = {} /\ topics_found = <<>>
       /\ output = <<>>

C5_Witness ==
  /\ pc = "done" /\ status = "InvalidInput"
  /\ question_counts = <<Tok(1)>> /\ difficulties = {"easy"}
  /\ units = {1, MaxUnitNumber + 1}
  /\ \E e \in 1..Len(syllabus_json) :
       syllabus_json[e].unit_number = 1 /\ syllabus_json[e].topics["Remembering"] # <<>>

\* C8: a fallback round uses exactly the levels ranked strictly below the
\* lowest active level (for {hard}: Remembering..Analyzing) and collects
\* until count is reached or the topics of those levels are used up.
C8_FallbackBelowLowest ==
  [][rounds' = rounds + 1 =>
       /\ Range(fallback_levels') = StrictlyBelow(primary_blooms)
       /\ difficulties = {"hard"} =>
            Range(fallback_levels') = {"Remembering", "Understanding", "Applying", "Analyzing"}
       /\ \/ Len(selected_topics') = num_questions
          \/ KeysAt(Range(fallback_levels')) \subseteq Range(selected_topics')]_vars

C8_Witness ==
  /\ Finished /\ rounds = 1 /\ difficulties = {"hard"}
  /\ Len(selected_topics) = 2
  /\ selected_topics[1][3] = "Evaluating"
  /\ selected_topics[2][3] \in {"Remembering", "Understanding", "Applying", "Analyzing"}

\* C9: the call fails with ExhaustedPool exactly when nothing was selected;
\* otherwise it returns the selected keys in selection order, numbered 1..n.
C9_ExhaustedIffNoneSelected ==
  Finished =>
    /\ status = "ExhaustedPool" <=> selected_topics = <<>>
    /\ selected_topics # <<>> =>
         /\ status = "returned"
         /\ Len(output) = Len(selected_topics)
         /\ \A i \in 1..Len(output) : output[i] = <<i, selected_topics[i]>>

C9_Witness ==
  Returned /\ Len(output) = 1 /\ num_questions = 2

\* C10: the list collect_topics returns is ordered by ascending unit number
\* and, within a unit, by taxonomy order of the level, and holds exactly the
\* in-scope keys that are not marked used.
C10_CollectOrdered ==
  pc = "loop" /\ rounds = 0 =>
    /\ \A i, j \in 1..Len(topics_found) : i < j =>
         \/ topics_found[i][1] < topics_found[j][1]
         \/ /\ topics_found[i][1] = topics_found[j][1]
            /\ Index(topics_found[i][3]) <= Index(topics_found[j][3])
    /\ Range(topics_found) = KeysAt(primary_blooms)

(***************************************************************************)
(* Properties of the classifier and of the generator.                      *)
(***************************************************************************)
CountOfType(entries, qt) ==
  Cardinality({i \in 1..Len(entries) :
                 entries[i].shape = "dict" /\ entries[i].question_type = qt})

\* C6: the classifier returns only answers whose per-format counts equal the
\* requested counts (MCQs, Short Answer, Long Answer); any other answer makes
\* the call fail.
C6_CountsValidated ==
  (cl_pc = "done" /\ cl_status = "returned") =>
    /\ CountOfType(cl_result, "MCQ") = cl_counts[1].val
    /\ CountOfType(cl_result, "Short Answer") = cl_counts[2].val
    /\ CountOfType(cl_result, "Long Answer") = cl_counts[3].val
    /\ Len(cl_result) = SumParts(cl_counts)

EntryFails(i) ==
  \/ gen_topics[i].shape # "dict"
  \/ gen_topics[i].topic = "None"
  \/ gen_topics[i].question_type = "None"
  \/ gen_outcomes[i] # "ok"

\* C7: for a non-empty list the batch is never aborted: the call returns one
\* element per entry, in input order, an error placeholder for a failed entry
\* and the generated question for every other entry.
C7_BatchNeverAborted ==
  (gen_pc = "done" /\ gen_topics # <<>>) =>
    /\ gen_status = "returned"
    /\ Len(questions) = Len(gen_topics)
    /\ \A i \in 1..Len(questions) :
         IF EntryFails(i)
         THEN questions[i].kind = "error"
         ELSE questions[i] = GeneratedQuestion(gen_topics[i].topic, gen_topics[i].question_type)

InitialLevels == map_difficulty_to_blooms(difficulties)

\* C11: a key of a fallback level is returned only after every key of the
\* initial levels at the requested units; and when the initial levels alone
\* hold at least count keys, no fallback round runs and only keys of the
\* initial levels are returned.
C11_FallbackAfterPrimary ==
  Finished =>
    /\ \A i \in 1..Len(output) :
         output[i][2][3] \notin InitialLevels =>
           KeysAt(InitialLevels) \subseteq {output[j][2] : j \in 1..(i - 1)}
    /\ Cardinality(KeysAt(InitialLevels)) >= num_questions =>
         /\ rounds = 0
         /\ \A i \in 1..Len(output) : output[i][2][3] \in InitialLevels

C11_Witness ==
  /\ Returned /\ difficulties = {"medium"} /\ rounds = 1
  /\ Len(output) = 2
  /\ output[1][2][3] \in InitialLevels
  /\ output[2][2][3] \notin InitialLevels

\* C15: every returned key belongs to a requested unit and to a level that is
\* mapped from the requested difficulties or ranked strictly below the lowest
\* mapped level; {easy, hard} never yields an Applying or Analyzing key, and
\* a request that includes easy never runs a fallback round.
C15_OnlyMappedOrLowerLevels ==
  Finished =>
    /\ \A i \in 1..Len(output) :
         /\ output[i][2][1] \in units
         /\ \/ output[i][2][3] \in InitialLevels
            \/ Index(output[i][2][3]) < LowestIndex(InitialLevels)
    /\ difficulties = {"easy", "hard"} =>
         \A i \in 1..Len(output) : output[i][2][3] \notin {"Applying", "Analyzing"}
    /\ "easy" \in difficulties => rounds = 0

C15_Witness ==
  /\ Returned /\ difficulties = {"easy", "hard"} /\ rounds = 0
  /\ Len(output) = 1 /\ num_questions = 2
  /\ \E e \in 1..Len(syllabus_json) :
       /\ syllabus_json[e].unit_number \in units
       /\ syllabus_json[e].topics["Applying"] # <<>>
  /\ \E e \in 1..Len(syllabus_json) : syllabus_json[e].unit_number \notin units

\* C13: no call changes the topic tree, whether it returns or fails; every
\* call starts with an empty used set and an empty selected list, so the
\* initial collection of a later call on the same tree finds the same keys
\* as that of the first call.
C13_NoCarriedState ==
  /\ [](pc = "validate" => used_topics = {} /\ selected_topics = <<>>)
  /\ [][/\ syllabus_json' = syllabus_json
        /\ (pc = "select" /\ pc' = "loop") =>
              Range(topics_found') = KeysAt(InitialLevels)]_vars

C13_Witness ==
  /\ calls = 2 /\ pc = "loop" /\ rounds = 0
  /\ topics_found # <<>>
  /\ Range(topics_found) = KeysAt(InitialLevels)
  /\ Range(selected_topics) \subseteq Range(topics_found)

StageOrder == <<"extract", "select", "classify", "generate">>

StageFailed ==
  \/ extract_status = "failed"
  \/ pc = "done" /\ status # "returned"
  \/ cl_pc = "done" /\ cl_status # "returned"

\* C12: in one run of the handler the stages are called in the order
\* extract, select, classify, generate, each only after the one before it
\* returned; when extraction, selection or classification fails no later
\* stage is called and the next step of the handler shows the error.
C12_StagesInOrder ==
  /\ [](/\ started = SubSeq(StageOrder, 1, Len(started))
        /\ pc # "idle" <=> Len(started) >= 2
        /\ cl_pc # "idle" <=> Len(started) >= 3
        /\ gen_pc # "idle" <=> Len(started) >= 4
        /\ Len(started) >= 2 => extract_status = "returned"
        /\ Len(started) >= 3 => pc = "done" /\ status = "returned"
        /\ Len(started) >= 4 => cl_pc = "done" /\ cl_status = "returned"
        /\ (StageFailed /\ app_pc = "done") => app_error)
  /\ [][(StageFailed /\ app_pc # "done") =>
          app_error' /\ app_pc' = "done" /\ started' = started]_vars

C12_Witness ==
  /\ app_pc = "done" /\ app_error
  /\ started = <<"extract", "select", "classify">>
  /\ status = "returned" /\ cl_status = "ClassifyError"
  /\ gen_pc = "idle"

\* C14: when selection, classification and generation all returned, the
\* rendering reads questions[index] only below len(questions) and the run
\* ends without an error, also when fewer questions than requested exist.
C14_RenderingInRange ==
  (status = "returned" /\ cl_status = "returned" /\ gen_status = "returned") =>
    /\ (app_pc = "render" /\ index < SumParts(question_counts)) => index < Len(questions)
    /\ app_pc = "done" => ~app_error

====
